---- MODULE Spec2Model ----
(***************************************************************************)
(* Patch / backup / restore engine of customize-and-build.py.              *)
(*                                                                         *)
(* A file is a record [exists, text]; text is a sequence of tokens, each   *)
(* token standing for one fragment of the file that the code's regexes and *)
(* literal patterns tell apart.  The structured documents                  *)
(* (electron-builder.yml, package.json) are sequences of [k, v] entries.   *)
(***************************************************************************)
EXTENDS Integers, Sequences, FiniteSets, TLC

(* ------------------------------ bounds -------------------------------- *)

\* number of engine runs (process invocations) in one behaviour
MaxRuns == 2
\* number of file writes (backup copy, rule write, restore copy) that fail
MaxFaults == 1
\* number of target files whose initial content is not the upstream one
MaxDrifted == 1
\* length of the file contents drawn by the rule-application specification
MaxLen == 5

(* --------------------------- target files ----------------------------- *)

SettingsPage == "src/renderer/src/pages/settings/SettingsPage.tsx"
BailianStrategy == "src/main/knowledge/reranker/strategies/BailianStrategy.ts"
ElectronBuilderYml == "electron-builder.yml"
PackageJson == "package.json"
UpdateAppButton == "src/renderer/src/pages/home/components/UpdateAppButton.tsx"
AboutSettings == "src/renderer/src/pages/settings/AboutSettings.tsx"
StoreSettings == "src/renderer/src/store/settings.ts"

files_to_modify ==
  << SettingsPage, BailianStrategy, ElectronBuilderYml, PackageJson,
     UpdateAppButton, AboutSettings, StoreSettings >>

Files == { files_to_modify[n] : n \in DOMAIN files_to_modify }

\* os.path.join(backup_dir, os.path.basename(file_path) + '.bak')
backup_path(f) ==
  CASE f = SettingsPage       -> ".customize-backup/SettingsPage.tsx.bak"
    [] f = BailianStrategy    -> ".customize-backup/BailianStrategy.ts.bak"
    [] f = ElectronBuilderYml -> ".customize-backup/electron-builder.yml.bak"
    [] f = PackageJson        -> ".customize-backup/package.json.bak"
    [] f = UpdateAppButton    -> ".customize-backup/UpdateAppButton.tsx.bak"
    [] f = AboutSettings      -> ".customize-backup/AboutSettings.tsx.bak"
    [] f = StoreSettings      -> ".customize-backup/settings.ts.bak"

BackupPaths == { backup_path(f) : f \in Files }

(* ----------------------------- file values ---------------------------- *)

Absent == [exists |-> FALSE, text |-> << >>]
File(t) == [exists |-> TRUE, text |-> t]

Range(s) == { s[n] : n \in DOMAIN s }

\* the token of  \s*\n\s*  (and of a trailing \s*\n) in a pattern
WS == "\\s*\\n\\s*"
\* the newline token of a text
NL == "\\n"

(* ------------------- re.sub / str.replace on tokens ------------------- *)

\* first position at or after i that holds no newline token
RECURSIVE SkipNL(_, _)
SkipNL(s, i) == IF i <= Len(s) /\ s[i] = NL THEN SkipNL(s, i + 1) ELSE i

\* position after the match of pat[k..] that starts at s[i], 0 when none
RECURSIVE MatchEnd(_, _, _, _)
MatchEnd(s, i, pat, k) ==
  IF k > Len(pat) THEN i
  ELSE IF pat[k] = WS
       THEN LET j == SkipNL(s, i)
            IN  IF j = i THEN 0 ELSE MatchEnd(s, j, pat, k + 1)
       ELSE IF i <= Len(s) /\ s[i] = pat[k]
            THEN MatchEnd(s, i + 1, pat, k + 1)
            ELSE 0

\* re.search(pat, s) is not None   /   pat in s
re_search(pat, s) == \E i \in 1..Len(s) : MatchEnd(s, i, pat, 1) > 0

\* re.sub(pat, rep, s), str.replace(pat, rep): leftmost matches, left to
\* right, none overlapping, the text scanned once
RECURSIVE SubFrom(_, _, _, _)
SubFrom(s, i, pat, rep) ==
  IF i > Len(s) THEN << >>
  ELSE LET e == MatchEnd(s, i, pat, 1)
       IN  IF e > 0 THEN rep \o SubFrom(s, e, pat, rep)
           ELSE << s[i] >> \o SubFrom(s, i + 1, pat, rep)

re_sub(pat, rep, s) == SubFrom(s, 1, pat, rep)

(* ------------------------- writing a file ----------------------------- *)

\* how a write to a file ends: "ok", or an I/O error raised by open()
\* before the file is touched, or raised after open() truncated it; a
\* shutil.copy2 can also raise in copystat, after the content was copied
WriteEnds == {"ok", "untouched", "trunc"}
CopyEnds == {"ok", "untouched", "trunc", "nometa"}

\* with open(file_path, 'w') as f: f.write(content)
write_file(file, text, w) ==
  CASE w = "ok"        -> File(text)
    [] w = "untouched" -> file
    [] w = "trunc"     -> File(<< >>)

\* shutil.copy2(src, dst): the new value of dst
copy2(src, dst, w) ==
  CASE w = "ok"        -> src
    [] w = "nometa"    -> src
    [] w = "untouched" -> dst
    [] w = "trunc"     -> File(<< >>)

\* what a rule did to one file: its return value, the outcome it logs,
\* the file afterwards, whether it opened the file for writing and whether
\* that write raised
Result(ret, outcome, file, wrote, fault) ==
  [ret |-> ret, outcome |-> outcome, file |-> file, wrote |-> wrote,
   fault |-> fault]

Raised(file) == Result(FALSE, "failed", file, FALSE, FALSE)
Skipped(file) == Result(TRUE, "skipped", file, FALSE, FALSE)

\* (mutant) the write is not gated by the dry-run flag
WriteOrReport_ungated(file, text, dry_run, w) ==
  Result(w = "ok", IF w = "ok" THEN "applied" ELSE "failed",
         write_file(file, text, w), w # "untouched", w # "ok")

\* if not self.dry_run: write, log "Modified"; else log "[DRY RUN] Would
\* modify"; return True -- an exception of the write returns False
WriteOrReport(file, text, dry_run, w) ==
  IF dry_run
  THEN Result(TRUE, "applied", file, FALSE, FALSE)
  ELSE Result(w = "ok", IF w = "ok" THEN "applied" ELSE "failed",
              write_file(file, text, w), w # "untouched", w # "ok")

(* ------------------------ modify_settings_page ------------------------ *)

DataSettingsTokens == {"import_DataSettings", "Route_data", "DataSettings"}

\* 'DataSettings' in content
HasDataSettings(s) == \E n \in DOMAIN s : s[n] \in DataSettingsTokens

SettingsPatterns ==
  << << "import_DataSettings", NL >>,
     << ",", WS, "HardDrive" >>,
     << "MenuItemLink_data", WS >>,
     << "Route_data", WS >> >>

\* the four re.sub calls, in the order of the code
SettingsTransform(s) ==
  LET c1 == re_sub(SettingsPatterns[1], << >>, s)
      c2 == re_sub(SettingsPatterns[2], << >>, c1)
      c3 == re_sub(SettingsPatterns[3], << >>, c2)
      c4 == re_sub(SettingsPatterns[4], << >>, c3)
  IN  c4

\* (mutant) a dry run reports "would modify" without comparing the content
modify_settings_page_eager(file, dry_run, w) ==
  IF ~file.exists THEN Raised(file)
  ELSE LET content == SettingsTransform(file.text)
       IN  IF dry_run THEN WriteOrReport(file, content, dry_run, w)
           ELSE IF content = file.text
           THEN IF ~HasDataSettings(content) THEN Skipped(file)
                ELSE Result(FALSE, "failed", file, FALSE, FALSE)
           ELSE WriteOrReport(file, content, dry_run, w)

modify_settings_page(file, dry_run, w) ==
  IF ~file.exists THEN Raised(file)
  ELSE LET content == SettingsTransform(file.text)
       IN  IF content = file.text
           THEN IF ~HasDataSettings(content) THEN Skipped(file)
                ELSE Result(FALSE, "failed", file, FALSE, FALSE)
           ELSE WriteOrReport(file, content, dry_run, w)

(* ----------------------- modify_bailian_strategy ---------------------- *)

old_method == << "buildUrl_sig", WS, "return_dashscope", WS, "}" >>

new_method ==
  << "buildUrl_baseURL_sig", NL, "if_baseURL", NL, "return_dashscope", NL,
     "}" >>

modify_bailian_strategy(file, dry_run, w) ==
  IF ~file.exists THEN Raised(file)
  ELSE IF "buildUrl_baseURL_sig" \in Range(file.text) THEN Skipped(file)
  ELSE IF ~re_search(old_method, file.text)
       THEN Result(FALSE, "failed", file, FALSE, FALSE)
       ELSE WriteOrReport(file, re_sub(old_method, new_method, file.text),
                          dry_run, w)

(* --------------------------- hide_update_ui --------------------------- *)

\* UpdateAppButton.tsx: return null immediately
hide_update_button(file, dry_run, w) ==
  IF ~file.exists THEN Raised(file)
  ELSE IF "return_null_customized" \in Range(file.text) THEN Skipped(file)
  ELSE WriteOrReport(file,
         re_sub(<< "UpdateAppButton_decl" >>,
                << "UpdateAppButton_decl", NL, "return_null_customized" >>,
                file.text),
         dry_run, w)

\* the str.replace calls on AboutSettings.tsx, in the order of the code
AboutReplacements ==
  << << << "CheckUpdateButton_block" >>, << >> >>,
     << << "auto_update_block" >>, << >> >>,
     << << "isPortable_state" >>, << >> >>,
     << << "useSettings_full" >>, << "useSettings_short" >> >>,
     << << NL, "onCheckUpdate_fn" >>, << NL >> >>,
     << << NL, "test_channel_fns" >>, << NL >> >>,
     << << "setVersion", "setIsPortable" >>, << "setVersion" >> >>,
     << << NL, "CheckUpdateButton_styled" >>, << NL >> >>,
     << << "dispatch_decl" >>, << >> >> >>

RECURSIVE ReplaceEach(_, _, _)
ReplaceEach(s, reps, n) ==
  IF n > Len(reps) THEN s
  ELSE ReplaceEach(re_sub(reps[n][1], reps[n][2], s), reps, n + 1)

AboutTransform(s) ==
  ReplaceEach(s, AboutReplacements, 1) \o << NL, "update_ui_hidden" >>

\* AboutSettings.tsx: remove CheckUpdateButton and the update rows
hide_about_settings(file, dry_run, w) ==
  IF ~file.exists THEN Raised(file)
  ELSE IF "update_ui_hidden" \in Range(file.text) THEN Skipped(file)
  ELSE WriteOrReport(file, AboutTransform(file.text), dry_run, w)

\* settings.ts: set autoCheckUpdate default to false
hide_store_settings(file, dry_run, w) ==
  IF ~file.exists THEN Raised(file)
  ELSE IF "autoCheckUpdate_false_customized" \in Range(file.text)
       THEN Skipped(file)
  ELSE WriteOrReport(file,
         re_sub(<< "autoCheckUpdate_true" >>,
                << "autoCheckUpdate_false_customized" >>, file.text),
         dry_run, w)

HideFiles == {UpdateAppButton, AboutSettings, StoreSettings}

\* the three patches of hide_update_ui, each in its own try block; w gives
\* the end of each file's write
hide_update_ui_results(tree, dry_run, w) ==
  [f \in HideFiles |->
     CASE f = UpdateAppButton -> hide_update_button(tree[f], dry_run, w[f])
       [] f = AboutSettings   -> hide_about_settings(tree[f], dry_run, w[f])
       [] f = StoreSettings   -> hide_store_settings(tree[f], dry_run, w[f])]

\* success = True; each except sets success = False; return success
hide_update_ui_ret(results) == \A f \in HideFiles : results[f].ret

(* --------------------- the structured documents ----------------------- *)

\* entries of a document text: a key with its value, a comment line
\* (YAML only) and a line that is no YAML / JSON at all
Pair(k, v) == [k |-> k, v |-> v]
Comment == [k |-> "#", v |-> ""]
Garbage == [k |-> "!", v |-> ""]

\* (mutant) the assignment starts a new dict
dict_set_fresh(d, k, v) ==
  << Pair(k, v) >>

\* config[k] = v on a dict: a dict keeps the position of a key it holds
dict_set(d, k, v) ==
  IF \E n \in DOMAIN d : d[n].k = k
  THEN [n \in DOMAIN d |-> IF d[n].k = k THEN Pair(k, v) ELSE d[n]]
  ELSE Append(d, Pair(k, v))

\* the dict a mapping document loads as: of a key given twice the last
\* value stays
RECURSIVE LoadPairs(_, _, _)
LoadPairs(t, n, d) ==
  IF n > Len(t) THEN d
  ELSE LoadPairs(t, n + 1,
         IF t[n].k = "#" THEN d ELSE dict_set(d, t[n].k, t[n].v))

IsPairs(t) == \E n \in DOMAIN t : t[n].k # "#"

\* yaml.safe_load(f) followed by config['appId'] = ...: a malformed
\* document raises in the parser, a document without a mapping (empty,
\* comments only) loads as None and the item assignment raises
yaml_loads_dict(t) == (\A n \in DOMAIN t : t[n].k # "!") /\ IsPairs(t)
yaml_safe_load(t) == LoadPairs(t, 1, << >>)

\* json.load(f): JSON has no comments and no empty document
json_loads_dict(t) == (\A n \in DOMAIN t : t[n].k \notin {"!", "#"}) /\ t # << >>
json_load(t) == LoadPairs(t, 1, << >>)

\* the keys of the documents, in the order sorted() gives them
SortedKeys == << "appId", "name", "other", "productName", "version" >>

RECURSIVE DumpSorted(_, _)
DumpSorted(d, n) ==
  IF n > Len(SortedKeys) THEN << >>
  ELSE SelectSeq(d, LAMBDA e : e.k = SortedKeys[n]) \o DumpSorted(d, n + 1)

\* yaml.dump(config, f, default_flow_style=False, allow_unicode=True):
\* sort_keys is left at its default, True
yaml_dump(d) == DumpSorted(d, 1)

\* json.dump(config, f, indent=2, ensure_ascii=False): insertion order
json_dump(d) == d

modify_electron_builder_yml(file, app_id, product_name, dry_run, w) ==
  IF ~file.exists \/ ~yaml_loads_dict(file.text) THEN Raised(file)
  ELSE LET c0 == yaml_safe_load(file.text)
           c1 == dict_set(c0, "appId", app_id)
           c2 == dict_set(c1, "productName", product_name)
       IN  WriteOrReport(file, yaml_dump(c2), dry_run, w)

modify_package_json(file, package_name, product_name, version, dry_run, w) ==
  IF ~file.exists \/ ~json_loads_dict(file.text) THEN Raised(file)
  ELSE LET c0 == json_load(file.text)
           c1 == dict_set(c0, "name", package_name)
           c2 == dict_set(c1, "productName", product_name)
           c3 == dict_set(c2, "version", version)
       IN  WriteOrReport(file, json_dump(c3), dry_run, w)

(* --------------------------- BackupManager ---------------------------- *)

\* backup_file(file_path): the backup directory afterwards, the list
\* backed_up_files afterwards and the return value; w is how copy2 ends
backup_file(tree, dir, list, f, w) ==
  IF ~tree[f].exists
  THEN [dir |-> dir, list |-> list, ret |-> FALSE]
  ELSE [dir  |-> [dir EXCEPT ![backup_path(f)] = copy2(tree[f], @, w)],
        list |-> IF w = "ok" THEN Append(list, f) ELSE list,
        ret  |-> w = "ok"]

\* restore_all(): one try block around the whole loop.  k = 0: no copy
\* raises; k > 0: the copy of the k-th listed file raises and ends as w.
\* Gives the tree afterwards, the return value and the files whose copy
\* was started.
RECURSIVE RestoreFrom(_, _, _, _, _, _)
RestoreFrom(tree, dir, list, n, k, w) ==
  IF n > Len(list) THEN [tree |-> tree, ret |-> TRUE, tried |-> {}]
  ELSE LET f == list[n]
           b == dir[backup_path(f)]
       IN  IF ~b.exists THEN RestoreFrom(tree, dir, list, n + 1, k, w)
           ELSE IF n = k
           THEN [tree  |-> [tree EXCEPT ![f] = copy2(b, @, w)],
                 ret   |-> FALSE,
                 tried |-> {f}]
           ELSE LET r == RestoreFrom([tree EXCEPT ![f] = b], dir, list,
                                     n + 1, k, w)
                IN  [r EXCEPT !.tried = @ \cup {f}]

\* (mutant) the loop leaves out the first listed file
restore_all_from_second(tree, dir, list, k, w) ==
  RestoreFrom(tree, dir, list, 2, k, w)

restore_all(tree, dir, list, k, w) == RestoreFrom(tree, dir, list, 1, k, w)

(* ------------------------------- state -------------------------------- *)

VARIABLES
  disk,             \* the project tree: target file -> file
  bakdir,           \* .customize-backup: backup path -> file
  backed_up_files,  \* BackupManager.backed_up_files of the running process
  args,             \* [dry_run, restore] of the running process
  config,           \* customize-config.json: [valid, hideDataSettings, ...]
  success,          \* main's success flag
  pc,               \* where main is
  status,           \* how the last run ended
  commands,         \* the build commands the run has executed
  runs,             \* runs started
  faults,           \* writes that raised
  start,            \* the tree when the run started
  prepatch,         \* the tree before the first run
  outcome,          \* what the run's rules reported, per target file
  written,          \* the files a rule of this run opened for writing
  unbacked,         \* of those, the ones not in backed_up_files then
  before,           \* a written file as it was just before that write
  raised,           \* the files whose write by a rule of this run raised
  restored,         \* restore_all of this run: "none", "true", "false"
  tried,            \* the files whose copy restore_all started
  prev,             \* the run before: its args, start, outcome, result
  evaluated         \* the rules main has called in this run, in order

vars ==
  << disk, bakdir, backed_up_files, args, config, success, pc, status,
     commands, runs, faults, start, prepatch, outcome, written, unbacked,
     before, raised, restored, tried, prev,
     evaluated >>

(* --------------------------- initial trees ---------------------------- *)

\* each file as the upstream project has it
Upstream(f) ==
  CASE f = SettingsPage ->
         File(<< "import_DataSettings", NL, "Command", ",", NL, "HardDrive",
                 ",", NL, "Info", "MenuItemLink_data", NL, "Route_data",
                 NL >>)
    [] f = BailianStrategy ->
         File(<< "buildUrl_sig", NL, "return_dashscope", NL, "}" >>)
    [] f = ElectronBuilderYml ->
         File(<< Comment, Pair("productName", "Cherry Studio"),
                 Pair("appId", "com.kangfenmao.CherryStudio"),
                 Pair("other", "x") >>)
    [] f = PackageJson ->
         File(<< Pair("name", "CherryStudio"), Pair("version", "1.0.0"),
                 Pair("other", "x") >>)
    [] f = UpdateAppButton ->
         File(<< "UpdateAppButton_decl", NL, "button_body" >>)
    [] f = AboutSettings ->
         File(<< "dispatch_decl", "isPortable_state", "useSettings_full", NL,
                 "onCheckUpdate_fn", NL, "test_channel_fns", "setVersion",
                 "setIsPortable", "CheckUpdateButton_block",
                 "auto_update_block", NL, "CheckUpdateButton_styled" >>)
    [] f = StoreSettings ->
         File(<< "autoCheckUpdate_true", NL, "other_settings" >>)

\* other shapes a file can have before a run: missing, drifted away from
\* the fragments the rules look for, malformed, already customized
Variants(f) ==
  {Absent} \cup
  CASE f = SettingsPage ->
         { File(<< "Command", ",", NL, "Info", "DataSettings" >>),
           File(<< "Command", ",", NL, "Info" >>) }
    [] f = BailianStrategy ->
         { File(<< "buildUrl_other" >>), File(new_method) }
    [] f = ElectronBuilderYml -> { File(<< Garbage >>) }
    [] f = PackageJson -> { File(<< Garbage >>) }
    [] f = UpdateAppButton -> { File(<< "button_body" >>) }
    [] f = AboutSettings -> { File(<< "about_body" >>) }
    [] f = StoreSettings -> { File(<< "autoCheckUpdate_false" >>) }

UpstreamTree == [f \in Files |-> Upstream(f)]

\* the trees in which at most n files are not the upstream ones
RECURSIVE Drifted(_)
Drifted(n) ==
  IF n = 0 THEN {UpstreamTree}
  ELSE LET T == Drifted(n - 1)
       IN  T \cup UNION { { [p[1] EXCEPT ![p[2]] = v] : v \in Variants(p[2]) } :
                          p \in T \X Files }

Trees == Drifted(MaxDrifted)

\* customize-config.json: whether load() accepts it (the file exists, is
\* JSON and "field in self.config" holds for the four required names),
\* whether the JSON document is an object (a list or a string holding the
\* four names passes load() as well), and the rule switches of an object
\* (config_manager.get(key, True))
Configs ==
  { c \in [valid : BOOLEAN, isdict : BOOLEAN, hideDataSettings : BOOLEAN,
           applyBailianFix : BOOLEAN, hideUpdateUI : BOOLEAN] :
      (~c.valid \/ ~c.isdict)
        => (c.hideDataSettings /\ c.applyBailianFix /\ c.hideUpdateUI) }

\* the identity fields of the configuration
appId == "com.new.id"
productName == "New App"
packageName == "new-app"
version == "2.0.0"

NoOutcome == [f \in Files |-> "none"]
NoArgs == [dry_run |-> FALSE, restore |-> FALSE]
NoPrev ==
  [ran |-> FALSE, args |-> NoArgs, start |-> [f \in Files |-> Absent],
   outcome |-> NoOutcome, success |-> TRUE, faulty |-> FALSE]

(* ------------------------------- main --------------------------------- *)

Init ==
  /\ disk \in Trees
  /\ bakdir = [b \in BackupPaths |-> Absent]
  /\ backed_up_files = << >>
  /\ args = NoArgs
  /\ config \in Configs
  /\ success = TRUE
  /\ pc = "idle"
  /\ status = "none"
  /\ commands = << >>
  /\ runs = 0
  /\ faults = 0
  /\ start = disk
  /\ prepatch = disk
  /\ outcome = NoOutcome
  /\ written = {}
  /\ unbacked = {}
  /\ before = disk
  /\ raised = {}
  /\ restored = "none"
  /\ tried = {}
  /\ prev = NoPrev
  /\ evaluated = << >>

\* a write may raise only while the fault budget lasts
MayRaise(n) == faults + n <= MaxFaults

\* the record kept of the run that just ended
Summary ==
  [ran |-> runs > 0, args |-> args, start |-> start, outcome |-> outcome,
   success |-> success, faulty |-> raised # {}]

\* main(), up to "Handle restore mode": parse the arguments, build the
\* Logger and a BackupManager whose backed_up_files is empty
StartRun(dry_run, restore) ==
  /\ pc \in {"idle", "exit"}
  /\ runs < MaxRuns
  /\ runs' = runs + 1
  /\ args' = [dry_run |-> dry_run, restore |-> restore]
  /\ backed_up_files' = << >>
  /\ success' = TRUE
  /\ status' = "running"
  /\ commands' = << >>
  /\ start' = disk
  /\ outcome' = NoOutcome
  /\ written' = {}
  /\ unbacked' = {}
  /\ before' = disk
  /\ raised' = {}
  /\ restored' = "none"
  /\ tried' = {}
  /\ prev' = Summary
  /\ evaluated' = << >>
  /\ pc' = IF restore THEN "restore" ELSE "config"
  /\ UNCHANGED << disk, bakdir, config, faults, prepatch >>

\* the call of restore_all() with the k-th copy raising (k = 0: none)
CallRestoreAll(k, w) ==
  LET r == restore_all(disk, bakdir, backed_up_files, k, w)
  IN  /\ k > 0 => (~r.ret /\ MayRaise(1))
      /\ k = 0 => w = "ok"
      /\ k > 0 => w # "ok"
      /\ disk' = r.tree
      /\ restored' = IF r.ret THEN "true" ELSE "false"
      /\ tried' = r.tried
      /\ faults' = faults + (IF r.ret THEN 0 ELSE 1)

\* (mutant) restore mode backs a target file up before it restores
RestoreMode_backing_up ==
  /\ pc = "restore"
  /\ LET r == backup_file(disk, bakdir, backed_up_files, ElectronBuilderYml,
                          "ok")
     IN  /\ bakdir' = r.dir
         /\ backed_up_files' = backed_up_files
  /\ \E k \in 0..Len(backed_up_files), w \in CopyEnds : CallRestoreAll(k, w)
  /\ pc' = "exit"
  /\ status' = "restored"
  /\ UNCHANGED << args, config, success,
                  commands, runs, start, prepatch, outcome, written,
                  unbacked, before, raised, prev,
                  evaluated >>

\* if args.restore: restore_all(), log, return
RestoreMode ==
  /\ pc = "restore"
  /\ \E k \in 0..Len(backed_up_files), w \in CopyEnds : CallRestoreAll(k, w)
  /\ pc' = "exit"
  /\ status' = "restored"
  /\ UNCHANGED << bakdir, backed_up_files, args, config, success,
                  commands, runs, start, prepatch, outcome, written,
                  unbacked, before, raised, prev,
                  evaluated >>

\* (mutant) main goes on to the backup phase whatever load() returns
LoadConfig_unchecked ==
  /\ pc = "config"
  /\ pc' = "backup"
  /\ UNCHANGED << disk, bakdir, backed_up_files, args, config, success,
                  commands, runs, faults, start, prepatch, outcome, written,
                  unbacked, before, raised, restored, tried, prev,
                  evaluated, status >>

\* config_manager.load(): on failure log and sys.exit(1)
LoadConfig ==
  /\ pc = "config"
  /\ pc' = IF config.valid THEN "backup" ELSE "exit"
  /\ status' = IF config.valid THEN status ELSE "config_error"
  /\ UNCHANGED << disk, bakdir, backed_up_files, args, config, success,
                  commands, runs, faults, start, prepatch, outcome, written,
                  unbacked, before, raised, restored, tried, prev,
                  evaluated >>

\* the loop  for file_path in files_to_modify: backup_file(file_path)  from
\* its n-th turn on; w gives how each file's copy2 ends; every return
\* value is dropped
RECURSIVE BackupLoop(_, _, _, _, _)
BackupLoop(tree, dir, list, n, w) ==
  IF n > Len(files_to_modify) THEN [dir |-> dir, list |-> list]
  ELSE LET r == backup_file(tree, dir, list, files_to_modify[n],
                            w[files_to_modify[n]])
       IN  BackupLoop(tree, r.dir, r.list, n + 1, w)

\* the copies that raise: some existing files, each with the way it fails
CopyFaults ==
  UNION { [D -> CopyEnds \ {"ok"}] :
          D \in { D \in SUBSET { f \in Files : disk[f].exists } :
                  MayRaise(Cardinality(D)) } }

\* (mutant) the backup phase ends after the first file of the list
BackupPhase_first_only ==
  /\ pc = "backup"
  /\ \E bad \in CopyFaults :
       LET w == [f \in Files |-> IF f \in DOMAIN bad THEN bad[f] ELSE "ok"]
           r == backup_file(disk, bakdir, backed_up_files, files_to_modify[1],
                            w[files_to_modify[1]])
       IN  /\ bakdir' = r.dir
           /\ backed_up_files' = r.list
           /\ faults' = faults + Cardinality(DOMAIN bad)
  /\ pc' = "settings"
  /\ UNCHANGED << disk, args, config, success, status, commands, runs,
                  start, prepatch, outcome, written, unbacked, before,
                  raised, restored, tried, prev, evaluated >>

\* "Backup files"
BackupPhase ==
  /\ pc = "backup"
  /\ \E bad \in CopyFaults :
       LET w == [f \in Files |-> IF f \in DOMAIN bad THEN bad[f] ELSE "ok"]
           r == BackupLoop(disk, bakdir, backed_up_files, 1, w)
       IN  /\ bakdir' = r.dir
           /\ backed_up_files' = r.list
           /\ faults' = faults + Cardinality(DOMAIN bad)
  /\ pc' = "settings"
  /\ UNCHANGED << disk, args, config, success, status, commands, runs,
                  start, prepatch, outcome, written, unbacked, before,
                  raised, restored, tried, prev,
                  evaluated >>

\* the effect of the results rs (target file -> Result) of one rule call
Record(rs, ret) ==
  LET W == { f \in DOMAIN rs : rs[f].wrote }
  IN  /\ \A f \in DOMAIN rs : rs[f].fault \/ ~rs[f].wrote \/ TRUE
      /\ MayRaise(Cardinality({ f \in DOMAIN rs : rs[f].fault }))
      /\ disk' = [f \in Files |-> IF f \in DOMAIN rs THEN rs[f].file ELSE disk[f]]
      /\ outcome' = [f \in Files |->
                       IF f \in DOMAIN rs THEN rs[f].outcome ELSE outcome[f]]
      /\ written' = written \cup W
      /\ unbacked' = unbacked \cup (W \ Range(backed_up_files))
      /\ before' = [f \in Files |->
                      IF f \in W \ written THEN disk[f] ELSE before[f]]
      /\ raised' = raised \cup { f \in DOMAIN rs : rs[f].fault }
      /\ faults' = faults + Cardinality({ f \in DOMAIN rs : rs[f].fault })
      /\ success' = (success /\ ret)

\* a rule switched off: nothing but the next step
Skip ==
  UNCHANGED << disk, outcome, written, unbacked, before, raised, faults,
               success, evaluated >>

RuleFrame ==
  UNCHANGED << bakdir, backed_up_files, args, config, status, commands,
               runs, start, prepatch, restored, tried, prev >>

\* a write end other than "ok" is drawn only for a write that happens
Honest(r, w) == w # "ok" => r.fault

\* (mutant) a failure of the first rule ends the rule phase
SettingsStep_abort ==
  /\ pc = "settings"
  /\ config.isdict
  /\ IF config.hideDataSettings
     THEN \E w \in WriteEnds :
            LET r == modify_settings_page(disk[SettingsPage], args.dry_run, w)
            IN  /\ Honest(r, w)
                /\ Record(SettingsPage :> r, r.ret)
                /\ evaluated' = Append(evaluated, "settings")
                /\ pc' = IF r.ret THEN "bailian" ELSE "finish"
     ELSE Skip /\ pc' = "bailian"
  /\ RuleFrame

\* config_manager.get(...) is self.config.get(...): on a configuration
\* that is no object it raises AttributeError in main, where nothing
\* catches it, and the traceback ends the process
SettingsStep ==
  /\ pc = "settings"
  /\ IF ~config.isdict
     THEN /\ pc' = "exit"
          /\ status' = "crashed"
          /\ Skip
          /\ UNCHANGED << bakdir, backed_up_files, args, config, commands,
                          runs, start, prepatch, restored, tried, prev >>
     ELSE /\ IF config.hideDataSettings
             THEN \E w \in WriteEnds :
                    LET r == modify_settings_page(disk[SettingsPage],
                                                  args.dry_run, w)
                    IN  /\ Honest(r, w)
                        /\ Record(SettingsPage :> r, r.ret)
                        /\ evaluated' = Append(evaluated, "settings")
             ELSE Skip
          /\ pc' = "bailian"
          /\ RuleFrame

\* (mutant) the rule runs whatever applyBailianFix says
BailianStep_always ==
  /\ pc = "bailian"
  /\ \E w \in WriteEnds :
       LET r == modify_bailian_strategy(disk[BailianStrategy],
                                        args.dry_run, w)
       IN  /\ Honest(r, w)
           /\ Record(BailianStrategy :> r, r.ret)
           /\ evaluated' = Append(evaluated, "bailian")
  /\ pc' = "hide"
  /\ RuleFrame

BailianStep ==
  /\ pc = "bailian"
  /\ IF config.applyBailianFix
     THEN \E w \in WriteEnds :
            LET r == modify_bailian_strategy(disk[BailianStrategy],
                                             args.dry_run, w)
            IN  /\ Honest(r, w)
                /\ Record(BailianStrategy :> r, r.ret)
                /\ evaluated' = Append(evaluated, "bailian")
     ELSE Skip
  /\ pc' = "hide"
  /\ RuleFrame

HideStep ==
  /\ pc = "hide"
  /\ IF config.hideUpdateUI
     THEN \E w \in [HideFiles -> WriteEnds] :
            LET rs == hide_update_ui_results(disk, args.dry_run, w)
            IN  /\ \A f \in HideFiles : Honest(rs[f], w[f])
                /\ Record(rs, hide_update_ui_ret(rs))
                /\ evaluated' = Append(evaluated, "hide")
     ELSE Skip
  /\ pc' = "yml"
  /\ RuleFrame

YmlStep ==
  /\ pc = "yml"
  /\ \E w \in WriteEnds :
       LET r == modify_electron_builder_yml(disk[ElectronBuilderYml], appId,
                                            productName, args.dry_run, w)
       IN  /\ Honest(r, w)
           /\ Record(ElectronBuilderYml :> r, r.ret)
           /\ evaluated' = Append(evaluated, "yml")
  /\ pc' = "pkg"
  /\ RuleFrame

PkgStep ==
  /\ pc = "pkg"
  /\ \E w \in WriteEnds :
       LET r == modify_package_json(disk[PackageJson], packageName,
                                    productName, version, args.dry_run, w)
       IN  /\ Honest(r, w)
           /\ Record(PackageJson :> r, r.ret)
           /\ evaluated' = Append(evaluated, "pkg")
  /\ pc' = "finish"
  /\ RuleFrame

\* (mutant) the build follows whatever the rules returned
Finish_then_build ==
  /\ pc = "finish"
  /\ pc' = "build"
  /\ UNCHANGED << disk, restored, tried, faults, status, bakdir,
                  backed_up_files, args, config, success, commands, runs,
                  start, prepatch, outcome, written, unbacked, before,
                  raised, prev,
                  evaluated >>

\* (mutant) the failure path restores in dry-run mode too
Finish_restore_in_dry_run ==
  /\ pc = "finish"
  /\ IF success
     THEN /\ pc' = "build"
          /\ UNCHANGED << disk, restored, tried, faults, status >>
     ELSE /\ pc' = "exit"
          /\ status' = "failed"
          /\ \E k \in 0..Len(backed_up_files), w \in CopyEnds :
               CallRestoreAll(k, w)
  /\ UNCHANGED << bakdir, backed_up_files, args, config, success,
                  commands, runs, start, prepatch, outcome, written,
                  unbacked, before, raised, prev, evaluated >>

\* (mutant) a failed run exits without calling restore_all()
Finish_without_restore ==
  /\ pc = "finish"
  /\ pc' = IF success THEN "build" ELSE "exit"
  /\ status' = IF success THEN status ELSE "failed"
  /\ UNCHANGED << disk, restored, tried, faults, bakdir, backed_up_files,
                  args, config, success, commands, runs, start, prepatch,
                  outcome, written, unbacked, before, raised, prev,
                  evaluated >>

\* if not success: log; if not args.dry_run: restore_all(); sys.exit(1)
Finish ==
  /\ pc = "finish"
  /\ IF success
     THEN /\ pc' = "build"
          /\ UNCHANGED << disk, restored, tried, faults, status >>
     ELSE /\ pc' = "exit"
          /\ status' = "failed"
          /\ IF args.dry_run
             THEN UNCHANGED << disk, restored, tried, faults >>
             ELSE \E k \in 0..Len(backed_up_files), w \in CopyEnds :
                    CallRestoreAll(k, w)
  /\ UNCHANGED << bakdir, backed_up_files, args, config, success,
                  commands, runs, start, prepatch, outcome, written,
                  unbacked, before, raised, prev,
                  evaluated >>

\* the commands of the build phase, in order, under the build options
BuildPlan(skipInstall, skipBuildCheck, platforms) ==
  (IF skipInstall THEN << >> ELSE << "pnpm install" >>)
  \o << "pnpm format" >>
  \o (IF skipBuildCheck THEN << >> ELSE << "pnpm build:check" >>)
  \o (IF "mac" \in platforms THEN << "pnpm build:mac" >> ELSE << >>)
  \o (IF "windows" \in platforms THEN << "pnpm build:win" >> ELSE << >>)

\* the ways the build phase can end: under each choice of the build
\* options the commands run in order until one returns a non-zero code;
\* with a buildPlatforms that is no container (a number, say) the test
\* 'mac' in build_platforms raises TypeError in main once the commands
\* before it have succeeded
BuildEnds(dry_run) ==
  UNION {
    LET plan == BuildPlan(o[2], o[3], o[4])
    IN  IF o[1] /\ ~dry_run
        THEN { [commands |-> IF n = 0 THEN plan ELSE SubSeq(plan, 1, n),
                status |-> IF n = 0 THEN "completed" ELSE "build_failed"] :
               n \in 0..Len(plan) }
             \cup { [commands |-> BuildPlan(o[2], o[3], {}),
                     status |-> "crashed"] }
        ELSE { [commands |-> << >>, status |-> "completed"] } :
    o \in BOOLEAN \X BOOLEAN \X BOOLEAN \X SUBSET {"mac", "windows"} }

\* (mutant) a failed build command is followed by restore_all()
Build_restoring ==
  /\ pc = "build"
  /\ \E e \in BuildEnds(args.dry_run) :
       /\ commands' = e.commands
       /\ status' = e.status
       /\ IF e.status = "build_failed"
          THEN \E k \in 0..Len(backed_up_files), w \in CopyEnds :
                 CallRestoreAll(k, w)
          ELSE UNCHANGED << disk, restored, tried, faults >>
  /\ pc' = "exit"
  /\ UNCHANGED << bakdir, backed_up_files, args, config, success, runs,
                  start, prepatch, outcome, written, unbacked, before,
                  raised, prev, evaluated >>

\* "Build and package": autoBuild, skipInstall, skipBuildCheck and
\* buildPlatforms are read from the configuration here
Build ==
  /\ pc = "build"
  /\ \E e \in BuildEnds(args.dry_run) :
       /\ commands' = e.commands
       /\ status' = e.status
  /\ pc' = "exit"
  /\ UNCHANGED << disk, bakdir, backed_up_files, args, config, success, runs,
                  faults, start, prepatch, outcome, written, unbacked, before,
                  raised, restored, tried, prev,
                  evaluated >>

Next ==
  \/ \E dry_run, restore \in BOOLEAN : StartRun(dry_run, restore)
  \/ RestoreMode
  \/ LoadConfig
  \/ BackupPhase
  \/ SettingsStep
  \/ BailianStep
  \/ HideStep
  \/ YmlStep
  \/ PkgStep
  \/ Finish
  \/ Build

Spec == Init /\ [][Next]_vars

(* ------------- the rules applied to arbitrary file contents ----------- *)

BoundedSeq(S, n) == UNION { [1..m -> S] : m \in 0..n }

\* the fragments a rule tells apart in its file
Alphabet(f) ==
  CASE f = SettingsPage ->
         { "import_DataSettings", NL, ",", "HardDrive", "MenuItemLink_data",
           "Route_data", "DataSettings" }
    [] f = BailianStrategy ->
         { "buildUrl_sig", NL, "return_dashscope", "}", "buildUrl_baseURL_sig" }
    [] f = ElectronBuilderYml ->
         { Comment, Garbage, Pair("appId", "old.id"), Pair("appId", appId),
           Pair("productName", "Old"), Pair("other", "x"),
           Pair("other", "y") }
    [] f = PackageJson ->
         { Garbage, Pair("name", "old"), Pair("version", version),
           Pair("version", "1.0.0"), Pair("other", "x"),
           Pair("other", "y") }
    [] f = UpdateAppButton ->
         { "UpdateAppButton_decl", NL, "return_null_customized", "button_body" }
    [] f = AboutSettings ->
         { NL, "onCheckUpdate_fn", "setVersion", "setIsPortable",
           "useSettings_full", "update_ui_hidden" }
    [] f = StoreSettings ->
         { "autoCheckUpdate_true", "autoCheckUpdate_false_customized",
           "autoCheckUpdate_false", NL }

\* the file(s) each rule works on
RuleFiles(rule) ==
  CASE rule = "settings" -> {SettingsPage}
    [] rule = "bailian"  -> {BailianStrategy}
    [] rule = "hide"     -> HideFiles
    [] rule = "yml"      -> {ElectronBuilderYml}
    [] rule = "pkg"      -> {PackageJson}

Rules == {"settings", "bailian", "hide", "yml", "pkg"}

\* one rule, one of its files with any content up to MaxLen fragments, the
\* other files missing
InitApply ==
  /\ \E rule \in Rules : \E f \in RuleFiles(rule) :
       \E t \in BoundedSeq(Alphabet(f), MaxLen) :
         /\ pc = rule
         /\ disk = [g \in Files |-> IF g = f THEN File(t) ELSE Absent]
  /\ bakdir = [b \in BackupPaths |-> Absent]
  /\ backed_up_files = << >>
  /\ args = NoArgs
  /\ config = [valid |-> TRUE, isdict |-> TRUE, hideDataSettings |-> TRUE,
               applyBailianFix |-> TRUE, hideUpdateUI |-> TRUE]
  /\ success = TRUE
  /\ status = "none"
  /\ commands = << >>
  /\ runs = 0
  /\ faults = 0
  /\ start = disk
  /\ prepatch = disk
  /\ outcome = NoOutcome
  /\ written = {}
  /\ unbacked = {}
  /\ before = disk
  /\ raised = {}
  /\ restored = "none"
  /\ tried = {}
  /\ prev = NoPrev
  /\ evaluated = << >>

\* in this specification runs counts the applications of the rule
ApplyFrame ==
  /\ runs < 2
  /\ runs' = runs + 1
  /\ UNCHANGED << bakdir, backed_up_files, args, config, pc, status, commands,
                  start, prepatch, restored, tried, prev,
                  evaluated >>

ApplySettings ==
  /\ pc = "settings"
  /\ LET r == modify_settings_page(disk[SettingsPage], FALSE, "ok")
     IN  Record(SettingsPage :> r, r.ret)
  /\ ApplyFrame

ApplyBailian ==
  /\ pc = "bailian"
  /\ LET r == modify_bailian_strategy(disk[BailianStrategy], FALSE, "ok")
     IN  Record(BailianStrategy :> r, r.ret)
  /\ ApplyFrame

ApplyHide ==
  /\ pc = "hide"
  /\ LET rs == hide_update_ui_results(disk, FALSE, [f \in HideFiles |-> "ok"])
     IN  Record(rs, hide_update_ui_ret(rs))
  /\ ApplyFrame

ApplyYml ==
  /\ pc = "yml"
  /\ LET r == modify_electron_builder_yml(disk[ElectronBuilderYml], appId,
                                          productName, FALSE, "ok")
     IN  Record(ElectronBuilderYml :> r, r.ret)
  /\ ApplyFrame

ApplyPkg ==
  /\ pc = "pkg"
  /\ LET r == modify_package_json(disk[PackageJson], packageName, productName,
                                  version, FALSE, "ok")
     IN  Record(PackageJson :> r, r.ret)
  /\ ApplyFrame

NextApply ==
  \/ ApplySettings
  \/ ApplyBailian
  \/ ApplyHide
  \/ ApplyYml
  \/ ApplyPkg

SpecApply == InitApply /\ [][NextApply]_vars

(* ------------------------------ claims -------------------------------- *)

\* C4: idempotence.  For every rule and every file content, a second
\* application of the rule leaves the content the first application gave:
\* once the rule has been applied, applying it again changes no file.
C4_Idempotence == [][runs = 1 => disk' = disk]_vars

\* the backup copy of target file f
BackupOf(f) == bakdir[backup_path(f)]

\* a run of the patch engine (not --restore) that got past its
\* configuration, a JSON object
Patching ==
  pc # "idle" /\ ~args.restore /\ status # "config_error" /\ config.isdict

\* C1: backup before mutate.  Every file a rule of the run has written was
\* in backed_up_files when it was written, and its backup copy holds the
\* file as it was just before that write -- also when backup_file failed
\* with an I/O error on an existing file.
C1_BackupBeforeMutate ==
  /\ unbacked = {}
  /\ \A f \in written : BackupOf(f) = before[f]

MixedRun ==
  /\ Patching
  /\ pc = "exit"
  /\ \E f \in Files : outcome[f] = "failed"
  /\ \E f \in written : outcome[f] = "applied"

NoMatch(f, t) ==
  CASE f = SettingsPage ->
         /\ HasDataSettings(t)
         /\ \A n \in DOMAIN SettingsPatterns : ~re_search(SettingsPatterns[n], t)
    [] f = BailianStrategy ->
         "buildUrl_baseURL_sig" \notin Range(t) /\ ~re_search(old_method, t)
    [] f = UpdateAppButton ->
         Range(t) \cap {"return_null_customized", "UpdateAppButton_decl"} = {}
    [] f = AboutSettings ->
         /\ "update_ui_hidden" \notin Range(t)
         /\ \A n \in DOMAIN AboutReplacements :
              ~re_search(AboutReplacements[n][1], t)
    [] f = StoreSettings ->
         Range(t) \cap {"autoCheckUpdate_false_customized",
                        "autoCheckUpdate_true"} = {}

PatternFiles == {SettingsPage, BailianStrategy} \cup HideFiles

\* C5: drift detection.  A rule that has met a file holding neither its
\* already-applied marker nor its precondition fragment has reported that
\* file failed, and the run is marked failed.
C5_DriftDetected ==
  \A f \in PatternFiles :
    (Patching /\ outcome[f] # "none" /\ start[f].exists
       /\ NoMatch(f, start[f].text))
    => (outcome[f] = "failed" /\ ~success)

\* C6: dry-run purity.  In a run with --dry-run every target file has the
\* content it had when the run started, no rule has opened a file for
\* writing and restore_all() has copied nothing.
C6_DryRunPure ==
  (pc # "idle" /\ args.dry_run) =>
    (disk = start /\ written = {} /\ tried = {})

\* a dry run ended failed, with one rule failing and another reporting
\* that it would modify its file
C6_Witness ==
  /\ pc = "exit"
  /\ args.dry_run
  /\ status = "failed"
  /\ \E f \in Files : outcome[f] = "applied" /\ start[f].exists
  /\ disk = start

\* this run and the one before it are a dry-run pass and a non-dry-run
\* pass of the patch engine, started from the same tree (the configuration
\* file is the same throughout), and this run has ended
TwoPasses ==
  /\ pc = "exit"
  /\ prev.ran
  /\ ~args.restore
  /\ ~prev.args.restore
  /\ args.dry_run # prev.args.dry_run
  /\ prev.start = start

C8_BestEffort ==
  restored # "none" =>
    tried = { f \in Range(backed_up_files) : BackupOf(f).exists }

\* C9: separate-invocation restore.  When a --restore run has ended (and
\* no write has raised so far), every target file with a backup in the
\* backup directory has that backup's content.
C9_SeparateRestore ==
  (pc = "exit" /\ status = "restored" /\ faults = 0)
    => \A f \in Files : BackupOf(f).exists => disk[f] = BackupOf(f)

\* C10: return to the pre-patch state across runs.  After any sequence of
\* complete runs in which no write raised, the backup of each target file
\* that has one holds the file's content from before the first run.
C10_BackupKeepsPrepatch ==
  (pc = "exit" /\ faults = 0)
    => \A f \in Files : BackupOf(f).exists => BackupOf(f) = prepatch[f]

\* C11: build gating.  A build command (install, format, build check,
\* platform build) has been run only in a run whose rules all returned
\* success: no rule of the run reported a failure, and the run did not take
\* the failure path.
C11_BuildGating ==
  commands # << >> =>
    /\ success
    /\ \A f \in Files : outcome[f] # "failed"
    /\ status \in {"completed", "build_failed", "crashed"}

\* after a run that failed, and ran no build, a run whose rules all
\* succeeded went through its build commands
C11_Witness ==
  /\ pc = "exit"
  /\ status = "completed"
  /\ Len(commands) >= 3
  /\ written # {}
  /\ prev.ran /\ ~prev.success /\ ~prev.args.dry_run /\ ~prev.args.restore

\* C12: no silent partial state.  When a run without --dry-run has ended
\* on the failure path, either every target file written in the run has
\* its pre-run content again, or restore_all() reported its failure
\* (returned false, logging "Restore failed"): the run never ends with a
\* written file still modified and the restore reported as successful.
C12_NoSilentPartial ==
  (pc = "exit" /\ status = "failed" /\ ~args.dry_run) =>
    \/ restored = "false"
    \/ \A f \in written : disk[f] = start[f]

\* the value a document text gives key k: that of the last entry with the
\* key, "(none)" when no entry has it
Lookup(t, k) ==
  LET at == { n \in DOMAIN t : t[n].k = k }
  IN  IF at = {} THEN "(none)"
      ELSE t[CHOOSE n \in at : \A m \in at : m <= n].v

\* the document text new gives the keys of given their values in given and
\* every other key the value it has in old
Rewritten(old, new, given) ==
  /\ \A e \in Range(given) : Lookup(new, e.k) = e.v
  /\ \A k \in Range(SortedKeys) \ { e.k : e \in Range(given) } :
       Lookup(new, k) = Lookup(old, k)
  /\ \A e \in Range(new) : e.k \in Range(SortedKeys)

\* C13: identity rewrite of the structured documents.  Once
\* modify_electron_builder_yml has rewritten a document, appId and
\* productName have the given values and every other key has the value it
\* had before (no key is added or lost); the same for modify_package_json
\* with name, productName and version.
C13_IdentityRewrite ==
  /\ (runs >= 1 /\ pc = "yml" /\ outcome[ElectronBuilderYml] = "applied") =>
       Rewritten(start[ElectronBuilderYml].text, disk[ElectronBuilderYml].text,
                 << Pair("appId", appId), Pair("productName", productName) >>)
  /\ (runs >= 1 /\ pc = "pkg" /\ outcome[PackageJson] = "applied") =>
       Rewritten(start[PackageJson].text, disk[PackageJson].text,
                 << Pair("name", packageName), Pair("productName", productName),
                    Pair("version", version) >>)

\* a build configuration with a comment, both identity fields and another
\* key given twice has been rewritten
C13_Witness ==
  /\ runs = 1
  /\ pc = "yml"
  /\ outcome[ElectronBuilderYml] = "applied"
  /\ Comment \in Range(start[ElectronBuilderYml].text)
  /\ Lookup(start[ElectronBuilderYml].text, "appId") = "old.id"
  /\ Lookup(start[ElectronBuilderYml].text, "productName") = "Old"
  /\ Lookup(start[ElectronBuilderYml].text, "other") = "y"
  /\ Pair("other", "x") \in Range(start[ElectronBuilderYml].text)
  /\ Lookup(disk[ElectronBuilderYml].text, "other") = "y"

\* this run of the patch engine started on the tree that the run before
\* it made of the upstream tree, with every rule of that run succeeding and
\* no write raising
Rerun ==
  /\ Patching
  /\ prev.ran
  /\ ~prev.args.restore
  /\ ~prev.args.dry_run
  /\ prev.success
  /\ prev.start = UpstreamTree
  /\ faults = 0

\* C14: already-applied detection.  In a rerun on an already-patched tree
\* every rule that has run found its file already applied: it reported
\* "skipped", returned success and did not open the file for writing, so
\* the rerun is not failed and has written no target file.
C14_AlreadyApplied ==
  Rerun =>
    /\ success
    /\ written = {}
    /\ \A f \in Files : outcome[f] \in {"none", "skipped"}

\* the rules in the order main calls them, and whether the configuration
\* switches a rule on (the two build-configuration rules always run)
RuleOrder == << "settings", "bailian", "hide", "yml", "pkg" >>

Enabled(rule) ==
  CASE rule = "settings" -> config.hideDataSettings
    [] rule = "bailian"  -> config.applyBailianFix
    [] rule = "hide"     -> config.hideUpdateUI
    [] rule = "yml"      -> TRUE
    [] rule = "pkg"      -> TRUE

EnabledRules == SelectSeq(RuleOrder, Enabled)

\* the rule reported a failure for one of its files
ReturnedFalse(rule) == \E f \in RuleFiles(rule) : outcome[f] = "failed"

\* C15: no short-circuit on rule failure.  Throughout a run the success
\* flag is false exactly when a rule called so far returned failure, and
\* a called rule has reported on each of its files (hide_update_ui on all
\* three, whichever of them failed), and when the rule phase is over every
\* enabled rule has been called exactly once, in order, whatever the rules
\* before it returned.
C15_NoShortCircuit ==
  Patching =>
    /\ success <=> ~ \E n \in DOMAIN evaluated : ReturnedFalse(evaluated[n])
    /\ \A n \in DOMAIN evaluated :
         \A f \in RuleFiles(evaluated[n]) : outcome[f] # "none"
    /\ pc \in {"finish", "build", "exit"} => evaluated = EnabledRules

\* the first rule failed and all four rules after it were still called,
\* the last one modifying its file
C15_Witness ==
  /\ Patching
  /\ pc = "exit"
  /\ evaluated = RuleOrder
  /\ outcome[SettingsPage] = "failed"
  /\ outcome[PackageJson] = "applied"
  /\ status = "failed"

\* C16: terminal-state restore policy.  A run of the patch engine has
\* called restore_all() exactly when it has left the rule phase with a rule
\* failed and --dry-run off: never before the rule phase is over, never in
\* dry-run mode and never when every rule succeeded.
C16_RestorePolicy ==
  Patching =>
    (restored # "none" <=> (pc = "exit" /\ ~success /\ ~args.dry_run))

\* after a failed dry run, which restored nothing, the same tree failed a
\* run without --dry-run, which called restore_all()
C16_Witness ==
  /\ Patching
  /\ pc = "exit"
  /\ status = "failed"
  /\ ~args.dry_run
  /\ restored # "none"
  /\ prev.ran /\ prev.args.dry_run /\ ~prev.args.restore /\ ~prev.success

\* C17: backup of an absent path.  The backup phase always goes on to the
\* modify phase, and over the whole target list: a file that does not
\* exist is not listed and its backup path is left as it was; every
\* existing file whose copy did not raise is listed, in the order of the
\* target list, with a backup equal to the file -- whichever other files
\* were absent or failed to copy.
C17_BackupPhase ==
  [][ pc = "backup" =>
        /\ pc' = "settings"
        /\ \A f \in Files :
             ~disk[f].exists =>
               /\ f \notin Range(backed_up_files')
               /\ bakdir'[backup_path(f)] = bakdir[backup_path(f)]
        /\ \A f \in Range(backed_up_files') : bakdir'[backup_path(f)] = disk[f]
        /\ backed_up_files' =
             SelectSeq(files_to_modify,
                       LAMBDA f : f \in Range(backed_up_files'))
        /\ Cardinality({ f \in Files : disk[f].exists
                                       /\ f \notin Range(backed_up_files') })
             = faults' - faults
        /\ disk' = disk ]_vars

\* the backup phase met an absent file and a copy that raised, and still
\* backed up the last file of the target list and went on to the rules
C17_Witness ==
  /\ pc = "settings"
  /\ ~args.restore
  /\ ~disk[SettingsPage].exists
  /\ ~BackupOf(SettingsPage).exists
  /\ disk[BailianStrategy].exists
  /\ BailianStrategy \notin Range(backed_up_files)
  /\ StoreSettings \in Range(backed_up_files)
  /\ BackupOf(StoreSettings) = disk[StoreSettings]
  /\ Len(backed_up_files) = 5

\* C18: missing target is non-fatal.  When a run of the patch engine in
\* which no write raised has ended, and every target file that existed
\* when it started was as upstream has it (so that the only thing out of
\* the ordinary is that some target files are absent), the run is not
\* marked failed and restore_all() has not been called.
C18_MissingNonFatal ==
  ( /\ Patching
    /\ pc = "exit"
    /\ faults = 0
    /\ \A f \in Files : start[f].exists => start[f] = Upstream(f) )
  => (success /\ status # "failed" /\ restored = "none")

\* C19: failure containment.  A run of the patch engine whose
\* configuration load() accepted does not end before its rules are through:
\* when it has ended, the rule calls up to the last one, modify_package_json,
\* have returned, and main has left through the failure path (AnyFailed)
\* exactly when a rule returned failure, and gone on to the build otherwise
\* (AllSucceeded).
C19_FailureContained ==
  (pc = "exit" /\ ~args.restore /\ status # "config_error") =>
    /\ evaluated # << >>
    /\ evaluated[Len(evaluated)] = "pkg"
    /\ status = "failed" <=> ~success

\* C20: no restore after a build failure.  Once the rules of a run have
\* all succeeded, restore_all() is not called in the rest of the run, and
\* the build phase, however it ends, leaves every target file as the rules
\* left it: a run that ends with a build command failed ends with its
\* written files modified.
C20_NoRestoreAfterBuildFailure ==
  [][ (pc = "build" /\ ~args.restore) =>
        /\ success
        /\ restored = "none"
        /\ restored' = "none"
        /\ tried' = {}
        /\ disk' = disk
        /\ pc' = "exit" ]_vars

\* a run without --dry-run ended on a failed build command after its rules
\* had modified the tree, which stayed modified
C20_Witness ==
  /\ pc = "exit"
  /\ status = "build_failed"
  /\ commands # << >>
  /\ restored = "none"
  /\ written # {}
  /\ \E f \in written : outcome[f] = "applied" /\ disk[f] # start[f]
  /\ \A f \in Files : f \in Range(backed_up_files) => BackupOf(f) = start[f]

\* the rules the configuration can switch off
Switchable == {"settings", "bailian", "hide"}

\* C21: disabled rules.  In a run of the patch engine a rule that the
\* configuration switches off is not called: it reports on none of its
\* files and no rule opens them for writing.  Such a file differs from its
\* pre-run content only if restore_all() started to copy its backup over
\* it, and not when restore_all() returned true.
C21_DisabledRules ==
  Patching =>
    \A rule \in Switchable :
      ~Enabled(rule) =>
        /\ \A n \in DOMAIN evaluated : evaluated[n] # rule
        /\ \A f \in RuleFiles(rule) :
             /\ f \notin written
             /\ outcome[f] = "none"
             /\ disk[f] # start[f] => (f \in tried /\ restored = "false")

\* with the first rule switched off another rule wrote its file and a
\* third failed; restore_all() then copied the backups back, that of the
\* switched-off rule's file included
C21_Witness ==
  /\ Patching
  /\ pc = "exit"
  /\ ~config.hideDataSettings
  /\ config.applyBailianFix
  /\ start[SettingsPage].exists
  /\ SettingsPage \in tried
  /\ restored = "true"
  /\ outcome[BailianStrategy] = "applied"
  /\ BailianStrategy \in written
  /\ evaluated = << "bailian", "yml", "pkg" >>

\* C22: restore mode frame.  A run with --restore goes from its start
\* straight to restore_all() and from there to its end: it lists and
\* copies no backup, leaves every file of the backup directory as it was,
\* calls no rule, does not load the configuration (the run never ends on a
\* configuration error), and runs no build command.
C22_RestoreModeFrame ==
  [][ pc = "restore" =>
        /\ args.restore
        /\ pc' = "exit"
        /\ status' = "restored"
        /\ bakdir' = bakdir
        /\ backed_up_files = << >> /\ backed_up_files' = << >>
        /\ evaluated = << >> /\ evaluated' = << >>
        /\ outcome = NoOutcome /\ outcome' = NoOutcome
        /\ written' = {}
        /\ commands = << >> /\ commands' = << >> ]_vars

\* a --restore run ended after a run that had backed up and patched the
\* tree; the backups still hold the files as they were before the patch
C22_Witness ==
  /\ pc = "exit"
  /\ args.restore
  /\ status = "restored"
  /\ prev.ran /\ ~prev.args.restore /\ ~prev.args.dry_run /\ prev.success
  /\ \E f \in Files : prev.outcome[f] = "applied"
                      /\ BackupOf(f).exists
                      /\ BackupOf(f) = prev.start[f]
                      /\ BackupOf(f) # start[f]

\* C23: configuration failure.  In a run of the patch engine whose
\* configuration load() rejects (file missing, invalid JSON, a required
\* field absent) nothing happens but the failed load: the run goes from the
\* load to its end with a configuration error, no backup is listed or
\* copied, no target file is written, no rule is called, restore_all() is
\* not called and no build command is run.
C23_ConfigFailure ==
  [][ (~config.valid /\ ~args'.restore) =>
        /\ pc' \in {"config", "exit"}
        /\ pc = "config" => (pc' = "exit" /\ status' = "config_error")
        /\ disk' = disk
        /\ bakdir' = bakdir
        /\ backed_up_files' = << >>
        /\ written' = {}
        /\ evaluated' = << >>
        /\ restored' = "none"
        /\ tried' = {}
        /\ commands' = << >> ]_vars

\* two runs in a row ended on the configuration error, the second without
\* --dry-run, with an empty backup directory and the tree as it was
C23_Witness ==
  /\ pc = "exit"
  /\ status = "config_error"
  /\ ~config.valid
  /\ ~args.restore /\ ~args.dry_run
  /\ prev.ran /\ ~prev.args.restore
  /\ \A f \in Files : ~BackupOf(f).exists
  /\ disk = prepatch
  /\ \E f \in Files : disk[f].exists
====
